---------------------------- MODULE Spec2Model ----------------------------
(***************************************************************************)
(* Model of src/main.py: a pedagogical RSA implementation.                 *)
(*                                                                         *)
(*   get_primes(start, stop)        trial-division prime enumeration       *)
(*   are_relatively_prime(a, b)     brute-force coprimality test           *)
(*   make_key_pair(length)          key generation with random p and q    *)
(*   PublicKey.encrypt / PrivateKey.decrypt   modular exponentiation       *)
(*                                                                         *)
(* A behaviour is one call made by a caller: either a call of get_primes, *)
(* a call of are_relatively_prime, or a call of make_key_pair followed by  *)
(* uses of the returned keys.  The random choices of make_key_pair         *)
(* (random.choice) are nondeterministic choices of the model.              *)
(***************************************************************************)
EXTENDS Integers, Sequences, FiniteSets

(* ------------------------------ bounds --------------------------------- *)

\* largest key length handed to make_key_pair
MaxLength == 8
\* largest start/stop handed to get_primes
MaxStop == 12
\* largest operand handed to are_relatively_prime
MaxArg == 11
\* how far below zero the integer inputs (length, start, stop) range
MaxBelowZero == 2

\* the smallest key length make_key_pair accepts
MinLength == 4

VARIABLES
    pc,         \* position of the caller / of make_key_pair
    gp_start,   \* get_primes: argument start
    gp_stop,    \* get_primes: argument stop
    gp_ret,     \* get_primes: returned list
    rp_a,       \* are_relatively_prime: argument a
    rp_b,       \* are_relatively_prime: argument b
    rp_ret,     \* are_relatively_prime: returned bool
    length,     \* make_key_pair: argument length
    n_min,      \* make_key_pair: local n_min
    n_max,      \* make_key_pair: local n_max
    start,      \* make_key_pair: local start
    stop,       \* make_key_pair: local stop (search bound, later (p-1)*(q-1))
    primes,     \* make_key_pair: local primes, the remaining pool
    pool,       \* history: the list get_primes returned to make_key_pair
    iters,      \* history: iterations of the while loop executed so far
    p,          \* make_key_pair: local p
    q,          \* make_key_pair: local q
    e,          \* make_key_pair: local e
    d,          \* make_key_pair: local d
    public,     \* the returned PublicKey(n, e)
    private,    \* the returned PrivateKey(n, d)
    x,          \* caller: the integer handed to encrypt or decrypt
    y,          \* caller: the result of public.encrypt(x)
    z           \* caller: the result of private.decrypt

vars == << pc, gp_start, gp_stop, gp_ret, rp_a, rp_b, rp_ret, length, n_min,
           n_max, start, stop, primes, pool, iters, p, q, e, d, public,
           private, x, y, z >>

(* --------------------------- pure functions ---------------------------- *)

\* 1 << k for k >= 0
RECURSIVE shl1(_)
shl1(k) == IF k <= 0 THEN 1 ELSE 2 * shl1(k - 1)

\* the inner for-else of get_primes: n is appended unless one of the primes
\* found so far divides it
sieve_step(ps, n) ==
    IF \E i \in 1..Len(ps) : n % ps[i] = 0 THEN ps ELSE Append(ps, n)

\* the for loop of get_primes over range(n, stop + 1, 2); the list is bound
\* to its value before the next iteration starts
RECURSIVE sieve(_, _, _)
sieve(n, stp, ps) ==
    IF n >= stp + 1 THEN ps
    ELSE CHOOSE r \in {sieve(n + 2, stp, nxt) : nxt \in {sieve_step(ps, n)}} :
             TRUE

\* the while loop of get_primes: del primes[0] while primes[0] < start
RECURSIVE trim(_, _)
trim(ps, strt) ==
    IF ps # << >> /\ ps[1] < strt THEN trim(Tail(ps), strt) ELSE ps

get_primes(strt, stp) ==
    IF strt >= stp THEN << >>
    ELSE trim(sieve(3, stp, << 2 >>), strt)

\* the for loop of are_relatively_prime over range(n, hi): TRUE when some n
\* in the range divides both a and b
RECURSIVE common_divisor_in(_, _, _, _)
common_divisor_in(n, hi, a, b) ==
    IF n >= hi THEN FALSE
    ELSE IF a % n = b % n /\ b % n = 0 THEN TRUE
    ELSE common_divisor_in(n + 1, hi, a, b)

min(a, b) == IF a <= b THEN a ELSE b

\* a plausible slip: range(2, min(a, b)) leaves min(a, b) itself untested
are_relatively_prime_open(a, b) == ~ common_divisor_in(2, min(a, b), a, b)

are_relatively_prime(a, b) == ~ common_divisor_in(2, min(a, b) + 1, a, b)

\* pow(b, ex, m) for ex >= 0 and m >= 1, by repeated squaring
RECURSIVE pow(_, _, _)
pow(b, ex, m) ==
    IF ex = 0 THEN 1 % m
    ELSE LET h == pow(b, ex \div 2, m)
             s == (h * h) % m
         IN  IF ex % 2 = 1 THEN (s * (b % m)) % m ELSE s

\* a plausible slip: the fields of the key handed to pow in the wrong order
encrypt_swapped(key, v) == pow(v, key.n, key.e)

encrypt(key, v) == pow(v, key.e, key.n)

decrypt(key, v) == pow(v, key.d, key.n)

(* ---------------------- pieces of make_key_pair ------------------------ *)

\* a plausible slip: the check off by one, so that length 3 is accepted
InvalidLength_3(len) == len < MinLength - 1

InvalidLength(len) == len < MinLength

search_start(len) == shl1(len \div 2 - 1)

\* a plausible slip: the pool stops at 1 << (length // 2)
search_stop_short(len) == shl1(len \div 2)

search_stop(len) == shl1(len \div 2 + 1)

\* a plausible slip: del primes[0] in place of primes.remove(p)
remove_first(ps, v) == Tail(ps)

\* list.remove(v): the list without the first occurrence of v
RECURSIVE remove(_, _)
remove(ps, v) ==
    IF ps = << >> THEN << >>
    ELSE IF ps[1] = v THEN Tail(ps)
    ELSE << ps[1] >> \o remove(Tail(ps), v)

\* a plausible slip: the upper bound of the comprehension's filter is lost
RECURSIVE q_candidates_no_max(_, _, _, _)
q_candidates_no_max(ps, pv, lo, hi) ==
    IF ps = << >> THEN << >>
    ELSE LET rest == q_candidates_no_max(Tail(ps), pv, lo, hi)
         IN  IF lo <= pv * ps[1] THEN << ps[1] >> \o rest ELSE rest

\* [q for q in primes if n_min <= p * q <= n_max]
RECURSIVE q_candidates(_, _, _, _)
q_candidates(ps, pv, lo, hi) ==
    IF ps = << >> THEN << >>
    ELSE LET rest == q_candidates(Tail(ps), pv, lo, hi)
         IN  IF lo <= pv * ps[1] /\ pv * ps[1] <= hi
             THEN << ps[1] >> \o rest ELSE rest

\* a plausible slip: the totient taken as p * q - 1
totient_n_minus_1(pv, qv) == pv * qv - 1

\* stop = (p - 1) * (q - 1)
totient(pv, qv) == (pv - 1) * (qv - 1)

\* a plausible slip: range(5, stop, 2)
next_in_range_from_5(cur) == IF cur = 0 THEN 5 ELSE cur + 2

\* the iterator of range(3, stop, 2): the value that follows cur, where
\* cur = 0 stands for a loop variable not yet bound
next_in_range(cur) == IF cur = 0 THEN 3 ELSE cur + 2

\* d * e % stop == 1
is_inverse(dv, ev, stp) == (dv * ev) % stp = 1

(* ------------------------------- Init ---------------------------------- *)

Idle ==
    /\ gp_ret = << >> /\ rp_ret = FALSE
    /\ n_min = 0 /\ n_max = 0 /\ start = 0 /\ stop = 0
    /\ primes = << >> /\ pool = << >> /\ iters = 0
    /\ p = 0 /\ q = 0 /\ e = 0 /\ d = 0
    /\ public = [n |-> 0, e |-> 0] /\ private = [n |-> 0, d |-> 0]
    /\ x = 0 /\ y = 0 /\ z = 0

Init ==
    /\ Idle
    /\ \/ /\ pc = "get_primes"
          /\ gp_start \in (0 - MaxBelowZero)..MaxStop
          /\ gp_stop \in (0 - MaxBelowZero)..MaxStop
          /\ rp_a = 1 /\ rp_b = 1 /\ length = 0
       \/ /\ pc = "are_relatively_prime"
          /\ rp_a \in 1..MaxArg
          /\ rp_b \in 1..MaxArg
          /\ gp_start = 0 /\ gp_stop = 0 /\ length = 0
       \/ /\ pc = "make_key_pair"
          /\ length \in (0 - MaxBelowZero)..MaxLength
          /\ gp_start = 0 /\ gp_stop = 0 /\ rp_a = 1 /\ rp_b = 1

(* ------------------------------ actions -------------------------------- *)

\* the caller calls get_primes(gp_start, gp_stop)
CallGetPrimes ==
    /\ pc = "get_primes"
    /\ gp_ret' = get_primes(gp_start, gp_stop)
    /\ pc' = "get_primes_returned"
    /\ UNCHANGED << gp_start, gp_stop, rp_a, rp_b, rp_ret, length, n_min,
                    n_max, start, stop, primes, pool, iters, p, q, e, d,
                    public, private, x, y, z >>

\* the caller calls are_relatively_prime(rp_a, rp_b)
CallAreRelativelyPrime ==
    /\ pc = "are_relatively_prime"
    /\ rp_ret' = are_relatively_prime(rp_a, rp_b)
    /\ pc' = "are_relatively_prime_returned"
    /\ UNCHANGED << gp_start, gp_stop, gp_ret, rp_a, rp_b, length, n_min,
                    n_max, start, stop, primes, pool, iters, p, q, e, d,
                    public, private, x, y, z >>

\* make_key_pair, lines 46-61: the length check and the prime pool
Enter ==
    /\ pc = "make_key_pair"
    /\ IF InvalidLength(length)
       THEN /\ pc' = "ValueError"
            /\ UNCHANGED << n_min, n_max, start, stop, primes, pool >>
       ELSE LET found == get_primes(search_start(length), search_stop(length))
            IN  /\ n_min' = shl1(length - 1)
                /\ n_max' = shl1(length) - 1
                /\ start' = search_start(length)
                /\ stop' = search_stop(length)
                /\ primes' = found
                /\ pool' = found
                /\ pc' = "while"
    /\ UNCHANGED << gp_start, gp_stop, gp_ret, rp_a, rp_b, rp_ret, length,
                    iters, p, q, e, d, public, private, x, y, z >>

\* make_key_pair, lines 63-73: one test of the while condition and, when
\* the pool is not empty, one iteration of the loop body
PickPrimes ==
    /\ pc = "while"
    /\ IF primes = << >>
       THEN /\ pc' = "AssertionError_pq"
            /\ UNCHANGED << primes, iters, p, q >>
       ELSE \E i \in 1..Len(primes) :
              LET pv == primes[i]
                  rest == remove(primes, pv)
                  cands == q_candidates(rest, pv, n_min, n_max)
              IN  /\ p' = pv
                  /\ primes' = rest
                  /\ iters' = iters + 1
                  /\ IF cands # << >>
                     THEN /\ \E j \in 1..Len(cands) : q' = cands[j]
                          /\ pc' = "totient"
                     ELSE /\ q' = q
                          /\ pc' = "while"
    /\ UNCHANGED << gp_start, gp_stop, gp_ret, rp_a, rp_b, rp_ret, length,
                    n_min, n_max, start, stop, pool, e, d, public, private,
                    x, y, z >>

\* make_key_pair, line 77: stop = (p - 1) * (q - 1)
Totient ==
    /\ pc = "totient"
    /\ stop' = totient(p, q)
    /\ pc' = "for_e"
    /\ UNCHANGED << gp_start, gp_stop, gp_ret, rp_a, rp_b, rp_ret, length,
                    n_min, n_max, start, primes, pool, iters, p, q, e, d,
                    public, private, x, y, z >>

\* make_key_pair, lines 78-83: one step of the for loop over
\* range(3, stop, 2) that searches e
FindE ==
    /\ pc = "for_e"
    /\ LET c == next_in_range(e)
       IN  IF c >= stop
           THEN pc' = "AssertionError_e" /\ e' = e
           ELSE /\ e' = c
                /\ pc' = IF are_relatively_prime(c, stop)
                         THEN "for_d" ELSE "for_e"
    /\ UNCHANGED << gp_start, gp_stop, gp_ret, rp_a, rp_b, rp_ret, length,
                    n_min, n_max, start, stop, primes, pool, iters, p, q, d,
                    public, private, x, y, z >>

\* make_key_pair, lines 87-92: one step of the for loop over
\* range(3, stop, 2) that searches d
FindD ==
    /\ pc = "for_d"
    /\ LET c == next_in_range(d)
       IN  IF c >= stop
           THEN pc' = "AssertionError_d" /\ d' = d
           ELSE /\ d' = c
                /\ pc' = IF is_inverse(c, e, stop)
                         THEN "return" ELSE "for_d"
    /\ UNCHANGED << gp_start, gp_stop, gp_ret, rp_a, rp_b, rp_ret, length,
                    n_min, n_max, start, stop, primes, pool, iters, p, q, e,
                    public, private, x, y, z >>

\* make_key_pair, line 95: the keys are built and returned
Return ==
    /\ pc = "return"
    /\ public' = [n |-> p * q, e |-> e]
    /\ private' = [n |-> p * q, d |-> d]
    /\ pc' = "returned"
    /\ UNCHANGED << gp_start, gp_stop, gp_ret, rp_a, rp_b, rp_ret, length,
                    n_min, n_max, start, stop, primes, pool, iters, p, q, e,
                    d, x, y, z >>

\* the caller encrypts some x in 0..n with the returned public key
Encrypt ==
    /\ pc = "returned"
    /\ \E v \in 0..public.n :
         /\ x' = v
         /\ y' = encrypt(public, v)
    /\ pc' = "encrypted"
    /\ UNCHANGED << gp_start, gp_stop, gp_ret, rp_a, rp_b, rp_ret, length,
                    n_min, n_max, start, stop, primes, pool, iters, p, q, e,
                    d, public, private, z >>

\* the caller decrypts the ciphertext y with the returned private key
Decrypt ==
    /\ pc = "encrypted"
    /\ z' = decrypt(private, y)
    /\ pc' = "decrypted"
    /\ UNCHANGED << gp_start, gp_stop, gp_ret, rp_a, rp_b, rp_ret, length,
                    n_min, n_max, start, stop, primes, pool, iters, p, q, e,
                    d, public, private, x, y >>

\* the caller hands n - 1 or n itself to decrypt (lines 158-159)
DecryptBoundary ==
    /\ pc = "returned"
    /\ \E v \in {private.n - 1, private.n} :
         /\ x' = v
         /\ z' = decrypt(private, v)
    /\ pc' = "boundary_decrypted"
    /\ UNCHANGED << gp_start, gp_stop, gp_ret, rp_a, rp_b, rp_ret, length,
                    n_min, n_max, start, stop, primes, pool, iters, p, q, e,
                    d, public, private, y >>

Next ==
    \/ CallGetPrimes
    \/ CallAreRelativelyPrime
    \/ Enter
    \/ PickPrimes
    \/ Totient
    \/ FindE
    \/ FindD
    \/ Return
    \/ Encrypt
    \/ Decrypt
    \/ DecryptBoundary

Spec == Init /\ [][Next]_vars

\* make_key_pair is straight-line code run by one thread: every step that
\* can be taken is taken
FairSpec == Spec /\ WF_vars(Next)


(* ------------------- definitions used by the properties ---------------- *)

\* positions at which make_key_pair has returned its pair of keys
Returned == pc \in {"returned", "encrypted", "decrypted", "boundary_decrypted"}

\* positions at which the while loop has ended with a pair (p, q)
PairFound == pc \in {"totient", "for_e", "for_d", "return",
                     "AssertionError_e", "AssertionError_d"} \/ Returned

\* positions of make_key_pair after a length check that passed
PoolBuilt == pc = "while" \/ pc = "AssertionError_pq" \/ PairFound

RECURSIVE bit_length(_)
bit_length(v) == IF v <= 0 THEN 0 ELSE 1 + bit_length(v \div 2)

RECURSIVE gcd(_, _)
gcd(a, b) == IF b = 0 THEN a ELSE gcd(b, a % b)

is_prime(k) == k >= 2 /\ \A m \in 2..(k - 1) : k % m # 0

elements(s) == {s[i] : i \in 1..Len(s)}

ascending(s) == \A i \in 1..Len(s) : \A j \in 1..Len(s) : i < j => s[i] < s[j]

\* the list holds two distinct primes whose product is an admissible modulus
viable(s) ==
    \E i \in 1..Len(s) : \E j \in 1..Len(s) :
        i # j /\ n_min <= s[i] * s[j] /\ s[i] * s[j] <= n_max

\* the odd k with 3 <= k < phi that are coprime with phi
e_choices(phi) == {k \in 3..(phi - 1) : k % 2 = 1 /\ gcd(k, phi) = 1}

\* the odd k with 3 <= k < phi that invert ev modulo phi
d_choices(ev, phi) == {k \in 3..(phi - 1) : k % 2 = 1 /\ (k * ev) % phi = 1}

least_of(v, S) == v \in S /\ \A k \in S : v <= k

(* ------------------------------ properties ----------------------------- *)

\* C1: round trip. For every returned pair and every x with 0 <= x < n,
\* decrypting with the private key what the public key encrypted gives x
\* back, x = 0 and the multiples of p and of q included.
C1_RoundTrip ==
    (pc = "decrypted" /\ 0 <= x /\ x < public.n) => z = x

\* a multiple of p, other than 0, went through encrypt and decrypt
C1_Witness ==
    /\ pc = "decrypted" /\ x > 0 /\ x < public.n /\ x % p = 0
    /\ y # x /\ z = x

\* C2: both keys of a returned pair carry the same modulus n, and n lies in
\* 2^(length-1) .. 2^length - 1, i.e. its bit length is exactly length.
C2_BitLength ==
    Returned =>
        /\ public.n = private.n
        /\ shl1(length - 1) <= public.n /\ public.n <= shl1(length) - 1
        /\ bit_length(public.n) = length

\* a pair of the largest length modelled was returned
C2_Witness == pc = "returned" /\ length = MaxLength /\ public.n = p * q

\* C3: for every length >= 4 make_key_pair ends by returning a pair; none of
\* the three searches ends in AssertionError.
C3_AlwaysSucceeds ==
    /\ [](pc \notin {"AssertionError_pq", "AssertionError_e", "AssertionError_d"})
    /\ ((pc = "make_key_pair" /\ length >= MinLength) ~> Returned)

\* a pair was returned after the loop had discarded primes without partner
C3_Witness == pc = "returned" /\ length >= MinLength /\ iters >= 3 /\ d >= 3

\* C4: boundary fixed points. encrypt(n-1) = n-1, encrypt(n) = 0,
\* decrypt(n-1) = n-1 and decrypt(n) = 0 for every returned pair.
C4_BoundaryFixedPoints ==
    /\ (pc = "encrypted" /\ x = public.n - 1) => y = public.n - 1
    /\ (pc = "encrypted" /\ x = public.n) => y = 0
    /\ (pc = "boundary_decrypted" /\ x = private.n - 1) => z = private.n - 1
    /\ (pc = "boundary_decrypted" /\ x = private.n) => z = 0

\* n - 1 was encrypted with an exponent e > 1
C4_Witness ==
    pc = "encrypted" /\ x = public.n - 1 /\ y = x /\ public.e >= 3 /\ public.n > 8

\* C5: make_key_pair fails with ValueError exactly for the lengths below 4,
\* and then before any prime search or random choice, returning no key.
C5_InvalidInput ==
    /\ (PoolBuilt \/ pc = "ValueError") => (pc = "ValueError" <=> length < 4)
    /\ pc = "ValueError" =>
           /\ pool = << >> /\ primes = << >> /\ iters = 0
           /\ p = 0 /\ q = 0 /\ public.n = 0 /\ private.n = 0

\* length 3 was rejected
C5_Witness == pc = "ValueError" /\ length = 3

\* C6: get_primes(start, stop) returns, ascending and without duplicates,
\* exactly the primes p with start <= p < stop.
C6_HalfOpenRange ==
    pc = "get_primes_returned" =>
        /\ ascending(gp_ret)
        /\ elements(gp_ret) = {k \in gp_start..(gp_stop - 1) : is_prime(k)}

\* C7: for positive a and b, are_relatively_prime(a, b) is TRUE exactly when
\* gcd(a, b) = 1, and swapping the arguments gives the same answer.
C7_Coprime ==
    pc = "are_relatively_prime_returned" =>
        /\ rp_ret = (gcd(rp_a, rp_b) = 1)
        /\ rp_ret = are_relatively_prime(rp_b, rp_a)

\* the smaller operand itself is the common divisor
C7_Witness ==
    /\ pc = "are_relatively_prime_returned"
    /\ rp_a = 3 /\ rp_b = 9 /\ rp_ret = FALSE

\* C8: in a returned pair e is the smallest odd integer in 3..phi-1 coprime
\* with phi = (p-1)(q-1), and d the smallest odd integer in 3..phi-1 with
\* d*e mod phi = 1: both are determined by the set {p, q}.
C8_ExponentTieBreak ==
    Returned =>
        LET phi == (p - 1) * (q - 1)
        IN  /\ least_of(public.e, e_choices(phi))
            /\ least_of(private.d, d_choices(public.e, phi))

\* a pair whose e is not the first candidate 3 and whose d differs from e
C8_Witness == pc = "returned" /\ public.e > 3 /\ private.d > public.e

\* C9: in every returned pair the private exponent differs from the public
\* one, so the public key's operation does not decrypt.
C9_DistinctExponents == Returned => private.d # public.e

\* C10: the while loop removes exactly one prime per iteration, so it runs
\* at most Len(pool) times; a pair (p, q) it ends with are two distinct
\* primes of the initial pool with n_min <= p*q <= n_max; discarding a prime
\* keeps a viable pair in the pool whenever the initial pool had one, and
\* the loop ends in AssertionError only when the initial pool had none.
C10_PairSelection ==
    PoolBuilt =>
        /\ iters + Len(primes) = Len(pool)
        /\ elements(primes) \subseteq elements(pool)
        /\ PairFound =>
               /\ p # q
               /\ p \in elements(pool) /\ q \in elements(pool)
               /\ is_prime(p) /\ is_prime(q)
               /\ n_min <= p * q /\ p * q <= n_max
        /\ (pc = "while" /\ viable(pool)) => viable(primes)
        /\ pc = "AssertionError_pq" => ~ viable(pool)

\* two primes without partner were discarded before the pair was found
C10_Witness == pc = "totient" /\ iters = 3 /\ Len(primes) = Len(pool) - 3

=============================================================================
